---- MODULE Spec2Model ----
(***************************************************************************)
(* A model of the label-preparation core of FERAL.  prepare_labels.py      *)
(* turns tabular (BORIS) event exports into a class vocabulary, one dense  *)
(* label sequence per video and a train/val/test/inference split;          *)
(* prepare_folder_dataset.py does the same for a directory of clips sorted *)
(* into one folder per class.                                              *)
(*                                                                         *)
(*   Spec         one run of a label builder, record by record             *)
(*   SpecVocab    the vocabulary that convert_labels builds from its files *)
(*   SpecSplits   _make_splits on a list of video identifiers              *)
(*   SpecFolder   a run of process_folder_structure on a root directory    *)
(*   SpecConvert  a whole run of convert_labels, file by file              *)
(*                                                                         *)
(* Text is modelled as a sequence of character codes, so that strip,       *)
(* lower, upper, the whitespace substitution, substring tests and          *)
(* Python's code-point ordering of strings are computed and not assumed.   *)
(* A timestamp is a whole number of quarter seconds (every such value and  *)
(* its product with a whole fps is exact in binary floating point), so     *)
(* round() is Python's round-half-to-even on an exact value.               *)
(***************************************************************************)
EXTENDS Integers, Sequences, FiniteSets, TLC

VARIABLES
    mode,        \* convert_labels: "single" or "multilabel"
    beh,         \* convert_labels: sorted list of normalized behavior names
    beh_to_id,   \* convert_labels: name -> class ID
    K,           \* convert_labels: width of a multilabel vector
    fps,         \* builder argument: frames per second
    frames,      \* builder argument: frame count of the video
    recs,        \* the records the builder's loop has consumed so far
    out,         \* builder local: the dense label sequence
    act,         \* builder local: behavior -> opening frame of its open interval
    paths,       \* _collect_all_behaviors argument: the input files, in order
    videos,      \* _make_splits argument: the list of video identifiers
    splits,      \* _make_splits result; splits of process_folder_structure
    labels,      \* convert_labels, process_folder_structure: video -> sequence
    out_json,    \* the descriptor written to the output file; <<>> while none is
    root,        \* process_folder_structure argument: the entries of the root
    classes,     \* process_folder_structure: names of the class directories
    class_to_id, \* process_folder_structure: class name -> class ID
    all_videos,  \* process_folder_structure: the clips that got labels
    pc           \* position of the run that the specification follows

\* the state of process_folder_structure
folder_vars == <<root, classes, class_to_id, all_videos>>

\* the label map and the output file of a whole run
run_vars == <<labels, out_json>>

vars == <<mode, beh, beh_to_id, K, fps, frames, recs, out, act,
          paths, videos, splits, folder_vars, run_vars, pc>>

-----------------------------------------------------------------------------
(* Bounds of the model.                                                    *)

\* longest stream of freely chosen records fed to one builder run
MaxRecs == 2
\* longest video duration, in quarter seconds
MaxDurQ == 6

-----------------------------------------------------------------------------
(* Numbers.                                                                *)

Min(a, b) == IF a <= b THEN a ELSE b
Max(a, b) == IF a >= b THEN a ELSE b

\* n/d (d > 0) truncated towards minus infinity instead of rounded
PyFloor(n, d) == n \div d

\* Python 3 round() of the exact rational n/d (d > 0): nearest integer, ties to even
PyRound(n, d) ==
    LET fl == n \div d
        r2 == 2 * (n - fl * d)
    IN  IF r2 < d THEN fl
        ELSE IF r2 > d THEN fl + 1
        ELSE IF fl % 2 = 0 THEN fl ELSE fl + 1

-----------------------------------------------------------------------------
(* Text as sequences of character codes.                                   *)

S_START == <<83, 84, 65, 82, 84>>                       \* "START"
S_STOP  == <<83, 84, 79, 80>>                           \* "STOP"
S_start == <<115, 116, 97, 114, 116>>                   \* "start"
S_Stop  == <<83, 116, 111, 112>>                        \* "Stop"
S_POINT == <<80, 79, 73, 78, 84>>                       \* "POINT"
S_both  == <<83, 84, 79, 80, 47, 83, 84, 65, 82, 84>>   \* "STOP/START"
S_empty == <<>>                                         \* ""
S_blank == <<32, 9>>                                    \* " \t"

S_other    == <<111, 116, 104, 101, 114>>               \* "other"
S_Other    == <<79, 116, 104, 101, 114>>                \* "Other"
S_dig      == <<100, 105, 103>>                         \* "dig"
S_Dig_sp   == <<32, 68, 105, 103, 32>>                  \* " Dig "
S_rest     == <<114, 101, 115, 116>>                    \* "rest"
S_groom    == <<103, 114, 111, 111, 109>>               \* "groom"
S_vocalize == <<118, 111, 99, 97, 108, 105, 122, 101>>  \* "vocalize"
S_Dig__Up  == <<68, 105, 103, 32, 9, 85, 112>>          \* "Dig \tUp"

IsSpace(c) == c \in {9, 10, 11, 12, 13, 32}
Lower(c) == IF c \in 65..90 THEN c + 32 ELSE c
Upper(c) == IF c \in 97..122 THEN c - 32 ELSE c
LowerStr(s) == [i \in 1..Len(s) |-> Lower(s[i])]
UpperStr(s) == [i \in 1..Len(s) |-> Upper(s[i])]

\* str.strip(): drop leading and trailing whitespace
Strip(s) ==
    LET keep == {i \in 1..Len(s) : ~IsSpace(s[i])}
    IN  IF keep = {} THEN <<>>
        ELSE LET lo == CHOOSE i \in keep : \A j \in keep : i <= j
                 hi == CHOOSE i \in keep : \A j \in keep : i >= j
             IN  SubSeq(s, lo, hi)

\* re.sub(r"\s+", "_", s): every maximal run of whitespace becomes one "_"
RECURSIVE SubSpaces(_)
SubSpaces(s) ==
    IF s = <<>> THEN <<>>
    ELSE IF IsSpace(s[1])
         THEN IF Len(s) > 1 /\ IsSpace(s[2])
              THEN SubSpaces(Tail(s))
              ELSE <<95>> \o SubSpaces(Tail(s))
         ELSE <<s[1]>> \o SubSpaces(Tail(s))

\* _norm_name
norm_name(s) == SubSpaces(LowerStr(Strip(s)))

\* pat in s
Contains(pat, s) ==
    \E i \in 0..(Len(s) - Len(pat)) : SubSeq(s, i + 1, i + Len(pat)) = pat

\* Python's s < t on str: code-point lexicographic, a proper prefix is smaller
StrLess(s, t) ==
    \E i \in 1..(Min(Len(s), Len(t)) + 1) :
        /\ \A j \in 1..(i - 1) : s[j] = t[j]
        /\ \/ i = Len(s) + 1 /\ i <= Len(t)
           \/ i <= Len(s) /\ i <= Len(t) /\ s[i] < t[i]

\* sorted(S) for a set of strings
RECURSIVE Sorted(_)
Sorted(S) ==
    IF S = {} THEN <<>>
    ELSE LET m == CHOOSE x \in S : \A y \in S : y = x \/ StrLess(x, y)
         IN  <<m>> \o Sorted(S \ {m})

Range(s) == {s[i] : i \in 1..Len(s)}

-----------------------------------------------------------------------------
(* Cells of a record.  A time cell either parses as a float or does not;   *)
(* a float is finite (q quarter seconds), an infinity or a NaN, as float()  *)
(* accepts "inf" and "nan".  The behavior and status cells are raw text.   *)

None == [ok |-> FALSE, v |-> 0, val |-> "finite"]
Some(x) == [ok |-> TRUE, v |-> x, val |-> "finite"]

NumCell(q) == [num |-> TRUE, q |-> q, val |-> "finite"]
BadCell == [num |-> FALSE, q |-> 0, val |-> "finite"]
InfCell == [num |-> TRUE, q |-> 0, val |-> "inf"]
NanCell == [num |-> TRUE, q |-> 0, val |-> "nan"]

\* _safe_float: the parsed value, or None when float() raises
safe_float(x) == IF x.num THEN [ok |-> TRUE, v |-> x.q, val |-> x.val] ELSE None

\* int(round(x)) raises OverflowError on an infinity, ValueError on a NaN
int_round_raises(t) == t.ok /\ t.val # "finite"

Rec(t, b, s) == [time |-> t, beh |-> b, status |-> s]

-----------------------------------------------------------------------------
(* ClassVocabulary: convert_labels, lines 222-229 and 256.                 *)

\* dict assignment d[k] = v
Put(d, k, v) == [x \in DOMAIN d \cup {k} |-> IF x = k THEN v ELSE d[x]]

\* dict.pop(k) for a present key: the dict without k
Del(d, k) == [x \in DOMAIN d \ {k} |-> d[x]]

\* the loop "i=1; for b in beh: beh_to_id[b]=i; i+=1" from list position p on
RECURSIVE AssignFrom(_, _, _)
AssignFrom(d, names, p) ==
    IF p > Len(names) THEN d
    ELSE AssignFrom(Put(d, names[p], p), names, p + 1)

\* beh_to_id of single-label mode: {"other":0}, then the names from 1
beh_to_id_single(names) == AssignFrom((S_other :> 0), names, 1)

\* beh_to_id of multilabel mode: {b:i for i,b in enumerate(beh)}
beh_to_id_multilabel(names) ==
    [b \in Range(names) |-> (CHOOSE i \in 1..Len(names) : names[i] = b) - 1]

\* lines 222-229: beh_to_id of the mode
vocabulary(md, names) ==
    IF md = "multilabel" THEN beh_to_id_multilabel(names) ELSE beh_to_id_single(names)

\* class_names of the descriptor: {str(v):k for k,v in beh_to_id.items()}
class_names(b2i) ==
    [i \in {b2i[b] : b \in DOMAIN b2i} |-> CHOOSE b \in DOMAIN b2i : b2i[b] = i]

-----------------------------------------------------------------------------
(* LabelSequenceBuilder: _labels_from_records_single and                   *)
(* _labels_from_records_multilabel.  A builder state is [out, act].        *)

\* frames = int(round(fps*total)) of convert_labels; total in quarter seconds
frame_count(f, totalQ) == PyRound(f * totalQ, 4)

\* tf without the clamp
tf_unclamped(tq, f, n) == PyRound(tq * f, 4)

\* tf(t): the frame of a timestamp (tq quarter seconds), clamped to [0, n-1]
tf(tq, f, n) == Max(0, Min(PyRound(tq * f, 4), n - 1))

\* out=[0]*frames of a builder that allocates one frame too many
zeros_single_extra(n) == [i \in 1..(n + 1) |-> 0]

\* out=[0]*frames
zeros_single(n) == [i \in 1..n |-> 0]

\* out=[[0]*K for _ in range(frames)]
zeros_multilabel(n, k) == [i \in 1..n |-> [c \in 0..(k - 1) |-> 0]]

\* a fill that writes only the frames that still hold 0
fill_single_if_unset(o, a, b, cid) ==
    [i \in 1..Len(o) |-> IF (i - 1) \in a..b /\ o[i] = 0 THEN cid ELSE o[i]]

\* for ff in range(a,b+1): out[ff]=cid   (frame ff is element ff+1)
fill_single(o, a, b, cid) ==
    [i \in 1..Len(o) |-> IF (i - 1) \in a..b THEN cid ELSE o[i]]

\* a fill that replaces the vector of a frame by the one-hot vector of cid
fill_multilabel_onehot(o, a, b, cid) ==
    [i \in 1..Len(o) |->
        IF (i - 1) \in a..b THEN [c \in DOMAIN o[i] |-> IF c = cid THEN 1 ELSE 0]
        ELSE o[i]]

\* for ff in range(a,b+1): out[ff][cid]=1
fill_multilabel(o, a, b, cid) ==
    [i \in 1..Len(o) |-> IF (i - 1) \in a..b THEN Put(o[i], cid, 1) ELSE o[i]]

\* a START branch that also labels the opening frame
start_single_marks(st, name, f, cid) ==
    [out |-> [st.out EXCEPT ![f + 1] = cid], act |-> Put(st.act, name, f)]

\* the START branch of the single-label builder, line 165: act[beh]=f
start_single(st, name, f, cid) == [st EXCEPT !.act = Put(st.act, name, f)]

\* a START branch that keeps the opening frame of an interval already open
start_multilabel_keeps_first(st, name, f, cid) ==
    IF name \in DOMAIN st.act THEN st ELSE [st EXCEPT !.act = Put(st.act, name, f)]

\* the START branch of the multilabel builder, line 194: act[beh]=f
start_multilabel(st, name, f, cid) == [st EXCEPT !.act = Put(st.act, name, f)]

\* a STOP branch that treats a STOP without an open interval as a point
close_single_as_point(st, name, f, cid, n) ==
    LET s == IF name \in DOMAIN st.act THEN st.act[name] ELSE f
        a == Max(0, Min(s, f))
        b == Min(n - 1, Max(s, f))
    IN  [out |-> fill_single(st.out, a, b, cid),
         act |-> IF name \in DOMAIN st.act THEN Del(st.act, name) ELSE st.act]

\* the STOP branch of the single-label builder, lines 167-171
close_single(st, name, f, cid, n) ==
    IF name \in DOMAIN st.act
    THEN LET s == st.act[name]
             a == Max(0, Min(s, f))
             b == Min(n - 1, Max(s, f))
         IN  [out |-> fill_single(st.out, a, b, cid), act |-> Del(st.act, name)]
    ELSE st

\* the STOP branch of the multilabel builder, lines 196-200
close_multilabel(st, name, f, cid, n) ==
    IF name \in DOMAIN st.act
    THEN LET s == st.act[name]
             a == Max(0, Min(s, f))
             b == Min(n - 1, Max(s, f))
         IN  [out |-> fill_multilabel(st.out, a, b, cid), act |-> Del(st.act, name)]
    ELSE st

\* line 162: f=tf(t) raises for a record with a behavior and a time that
\* is no finite number
single_raises(r, b2i) ==
    /\ Strip(r.beh) # <<>>
    /\ int_round_raises(safe_float(r.time))

\* line 191: the same, reached only by a behavior of the vocabulary
multilabel_raises(r, b2i) ==
    /\ Strip(r.beh) # <<>>
    /\ norm_name(Strip(r.beh)) \in DOMAIN b2i
    /\ int_round_raises(safe_float(r.time))

\* one iteration of the loop of _labels_from_records_single, lines 156-172,
\* for a record on which it does not raise
single_record(st, r, f, n, b2i) ==
    LET t == safe_float(r.time)
        b == Strip(r.beh)
    IN  IF b = <<>> \/ ~t.ok THEN st
        ELSE LET name == norm_name(b)
                 cid == IF name \in DOMAIN b2i THEN b2i[name] ELSE 0
                 fr == tf(t.v, f, n)
                 stt == UpperStr(r.status)
             IN  IF Contains(S_START, stt)
                 THEN start_single(st, name, fr, cid)
                 ELSE IF Contains(S_STOP, stt)
                 THEN close_single(st, name, fr, cid, n)
                 ELSE [st EXCEPT !.out = fill_single(st.out, fr, fr, cid)]

\* an iteration of the multilabel loop that writes nothing for a POINT event
multilabel_record_no_points(st, r, f, n, b2i) ==
    LET t == safe_float(r.time)
        b == Strip(r.beh)
        name == norm_name(b)
        stt == UpperStr(r.status)
    IN  IF b = <<>> \/ ~t.ok \/ name \notin DOMAIN b2i THEN st
        ELSE IF Contains(S_START, stt)
        THEN start_multilabel(st, name, tf(t.v, f, n), b2i[name])
        ELSE IF Contains(S_STOP, stt)
        THEN close_multilabel(st, name, tf(t.v, f, n), b2i[name], n)
        ELSE st

\* one iteration of the loop of _labels_from_records_multilabel, lines
\* 184-201, for a record on which it does not raise
multilabel_record(st, r, f, n, b2i) ==
    LET t == safe_float(r.time)
        b == Strip(r.beh)
    IN  IF b = <<>> \/ ~t.ok THEN st
        ELSE LET name == norm_name(b)
             IN  IF name \notin DOMAIN b2i THEN st
                 ELSE LET cid == b2i[name]
                          fr == tf(t.v, f, n)
                          stt == UpperStr(r.status)
                      IN  IF Contains(S_START, stt)
                          THEN start_multilabel(st, name, fr, cid)
                          ELSE IF Contains(S_STOP, stt)
                          THEN close_multilabel(st, name, fr, cid, n)
                          ELSE [st EXCEPT !.out = fill_multilabel(st.out, fr, fr, cid)]

\* the loop of _labels_from_records_single over the records rs from record p
\* on, lines 156-172
RECURSIVE single_from(_, _, _, _, _, _)
single_from(st, rs, p, f, n, b2i) ==
    IF p > Len(rs) THEN st
    ELSE single_from(single_record(st, rs[p], f, n, b2i), rs, p + 1, f, n, b2i)

\* _labels_from_records_single: the sequence returned for the records rs
labels_from_records_single(rs, f, fr, b2i) ==
    LET n == Max(0, fr)
    IN  IF n = 0 THEN <<>>
        ELSE single_from([out |-> zeros_single(n), act |-> <<>>], rs, 1, f, n, b2i).out

\* the loop of _labels_from_records_multilabel from record p on, lines 184-201
RECURSIVE multilabel_from(_, _, _, _, _, _)
multilabel_from(st, rs, p, f, n, b2i) ==
    IF p > Len(rs) THEN st
    ELSE multilabel_from(multilabel_record(st, rs[p], f, n, b2i), rs, p + 1, f, n, b2i)

\* _labels_from_records_multilabel: the sequence returned for the records rs
labels_from_records_multilabel(rs, f, fr, b2i, k) ==
    LET n == Max(0, fr)
    IN  IF n = 0 THEN <<>>
        ELSE multilabel_from([out |-> zeros_multilabel(n, k), act |-> <<>>],
                             rs, 1, f, n, b2i).out

-----------------------------------------------------------------------------
(* Inputs of one builder run inside convert_labels.                        *)

\* beh.add(_norm_name(b)) for every non-blank behavior cell b
observed_names(cells) == {norm_name(Strip(b)) : b \in {c \in cells : Strip(c) # <<>>}}

\* the behavior cells found across all input files of a run
BehaviorCellSets ==
    { {S_rest},
      {S_Dig_sp, S_rest},
      {S_dig, S_Other, S_rest, S_blank},
      {S_groom, S_vocalize} }

FpsValues == {1, 2}

\* total length of the video in quarter seconds (16: the 4 s of Scenario A)
Durations == (0..MaxDurQ) \cup {16}

FreeRecords ==
    { Rec(NumCell(q), b, s) : q \in {2, 6}, b \in {S_Dig_sp, S_rest},
                              s \in {S_START, S_Stop, S_empty} }
    \cup { Rec(NumCell(-4), S_rest, S_start),
           Rec(NumCell(40), S_rest, S_STOP),
           Rec(NumCell(0), S_dig, S_both),
           Rec(NumCell(6), S_Other, S_POINT),
           Rec(BadCell, S_rest, S_STOP),
           Rec(NumCell(2), S_blank, S_START) }

\* records whose time cell is "nan" or "inf"
NonFiniteRecords ==
    { Rec(NanCell, S_rest, S_START), Rec(InfCell, S_rest, S_empty),
      Rec(NanCell, S_blank, S_START) }

\* Scenario A of the specification: rest from 1.0 s to 3.0 s
ScenarioA ==
    << Rec(NumCell(4), S_rest, S_START), Rec(NumCell(12), S_rest, S_STOP) >>

\* Scenario B: groom over frames 2-5 and vocalize over frames 4-7 at 2 fps
ScenarioB ==
    << Rec(NumCell(4), S_groom, S_START), Rec(NumCell(8), S_vocalize, S_START),
       Rec(NumCell(10), S_groom, S_STOP), Rec(NumCell(14), S_vocalize, S_STOP) >>

\* dig over frames 4-7, then the chronologically earlier rest over frames 2-5
ScenarioLate ==
    << Rec(NumCell(8), S_dig, S_START), Rec(NumCell(14), S_dig, S_STOP),
       Rec(NumCell(4), S_rest, S_START), Rec(NumCell(10), S_rest, S_STOP) >>

\* Scenario C: dig is started inside an interval of rest and never stopped
ScenarioC ==
    << Rec(NumCell(2), S_rest, S_START), Rec(NumCell(4), S_dig, S_START),
       Rec(NumCell(6), S_rest, S_STOP) >>

\* rest is started, stopped, and stopped once more at an earlier time
ScenarioDoubleStop ==
    << Rec(NumCell(2), S_rest, S_START), Rec(NumCell(6), S_rest, S_Stop),
       Rec(NumCell(0), S_rest, S_STOP) >>

\* rest is started at 0.5 s, started again at 2.0 s, and stopped at 3.0 s
ScenarioRestart ==
    << Rec(NumCell(2), S_rest, S_START), Rec(NumCell(8), S_rest, S_START),
       Rec(NumCell(12), S_rest, S_STOP) >>

ScenarioStreams ==
    {ScenarioA, ScenarioB, ScenarioC, ScenarioLate, ScenarioDoubleStop, ScenarioRestart}

\* every non-blank behavior cell of a file is in the vocabulary of the run,
\* because _collect_all_behaviors reads the same cells (lines 120-124, 217)
InVocabulary(r) == Strip(r.beh) = <<>> \/ norm_name(Strip(r.beh)) \in Range(beh)

\* the records that can come next in the file after the ones consumed
NextRecords ==
    { r \in FreeRecords \cup NonFiniteRecords : Len(recs) < MaxRecs /\ InVocabulary(r) }
    \cup { s[Len(recs) + 1] : s \in { x \in ScenarioStreams :
                /\ Len(recs) < Len(x)
                /\ SubSeq(x, 1, Len(recs)) = recs
                /\ InVocabulary(x[Len(recs) + 1]) } }

-----------------------------------------------------------------------------
(* Spec: one builder run, record by record.                                *)

\* before process_folder_structure has run
UnusedFolder == root = <<>> /\ classes = <<>> /\ class_to_id = <<>> /\ all_videos = <<>>

\* before any label sequence is stored and any output file is written
UnusedRun == labels = <<>> /\ out_json = <<>>

Init ==
    /\ mode \in {"single", "multilabel"}
    /\ \E cells \in BehaviorCellSets : beh = Sorted(observed_names(cells))
    /\ beh_to_id = vocabulary(mode, beh)
    /\ K = IF mode = "multilabel" THEN Len(beh) ELSE 0
    /\ fps \in FpsValues
    /\ \E total \in Durations : frames = frame_count(fps, total)
    /\ recs = <<>>
    /\ out = <<>>
    /\ act = <<>>
    /\ paths = <<>>
    /\ videos = <<>>
    /\ splits = <<>>
    /\ pc = "call"
    /\ UnusedFolder /\ UnusedRun

\* lines 148-151
single_begin ==
    /\ pc = "call" /\ mode = "single"
    /\ LET n == Max(0, frames)
       IN  IF n = 0 THEN out' = <<>> /\ pc' = "done"
           ELSE out' = zeros_single(n) /\ pc' = "loop"
    /\ act' = <<>>
    /\ UNCHANGED <<mode, beh, beh_to_id, K, fps, frames, recs, paths, videos, splits,
                 folder_vars, run_vars>>

\* lines 156-172, one record: it is consumed, or tf raises on its time and
\* the exception ends the builder
single_loop ==
    /\ pc = "loop" /\ mode = "single"
    /\ \E r \in NextRecords :
        IF single_raises(r, beh_to_id)
        THEN pc' = "raised" /\ UNCHANGED <<out, act, recs>>
        ELSE LET st == single_record([out |-> out, act |-> act], r, fps, frames, beh_to_id)
             IN  /\ out' = st.out
                 /\ act' = st.act
                 /\ recs' = Append(recs, r)
                 /\ pc' = pc
    /\ UNCHANGED <<mode, beh, beh_to_id, K, fps, frames, paths, videos, splits,
                   folder_vars, run_vars>>

\* lines 176-179
multilabel_begin ==
    /\ pc = "call" /\ mode = "multilabel"
    /\ LET n == Max(0, frames)
       IN  IF n = 0 THEN out' = <<>> /\ pc' = "done"
           ELSE out' = zeros_multilabel(n, K) /\ pc' = "loop"
    /\ act' = <<>>
    /\ UNCHANGED <<mode, beh, beh_to_id, K, fps, frames, recs, paths, videos, splits,
                 folder_vars, run_vars>>

\* lines 184-201, one record: consumed, or tf raises on its time
multilabel_loop ==
    /\ pc = "loop" /\ mode = "multilabel"
    /\ \E r \in NextRecords :
        IF multilabel_raises(r, beh_to_id)
        THEN pc' = "raised" /\ UNCHANGED <<out, act, recs>>
        ELSE LET st == multilabel_record([out |-> out, act |-> act], r, fps, frames,
                                         beh_to_id)
             IN  /\ out' = st.out
                 /\ act' = st.act
                 /\ recs' = Append(recs, r)
                 /\ pc' = pc
    /\ UNCHANGED <<mode, beh, beh_to_id, K, fps, frames, paths, videos, splits,
                   folder_vars, run_vars>>

\* lines 173 and 202: the records are exhausted, return out
builder_return ==
    /\ pc = "loop"
    /\ pc' = "done"
    /\ UNCHANGED <<mode, beh, beh_to_id, K, fps, frames, recs, out, act, paths, videos, splits,
                 folder_vars, run_vars>>

Next ==
    \/ single_begin
    \/ single_loop
    \/ multilabel_begin
    \/ multilabel_loop
    \/ builder_return

Spec == Init /\ [][Next]_vars

-----------------------------------------------------------------------------
(* The event stream of the consumed records, read declaratively            *)
(* (EventStreamParser of the specification): record i is an event when it  *)
(* has a parseable time and a non-blank behavior; its kind is START when   *)
(* the upper-cased status holds START, else STOP when it holds STOP, else  *)
(* POINT; its frame is clamp(round(t * fps), 0, frameCount-1).             *)

Running == pc \in {"loop", "done"}

\* the START that a STOP of behavior name closes, given the events ev before
\* it: the latest START or STOP of that behavior, when that is a START; 0
\* when there is none
OpenerIn(ev, name) ==
    LET prev == {j \in 1..Len(ev) : /\ ev[j].ok
                                    /\ ev[j].name = name
                                    /\ ev[j].kind \in {"START", "STOP"}}
    IN  IF prev = {} THEN 0
        ELSE LET j == CHOOSE x \in prev : \A y \in prev : y <= x
             IN  IF ev[j].kind = "START" THEN j ELSE 0

\* the events of the first n records of rs, each STOP with the START it closes
RECURSIVE ParsedUpTo(_, _)
ParsedUpTo(rs, n) ==
    IF n = 0 THEN <<>>
    ELSE LET ev == ParsedUpTo(rs, n - 1)
             r == rs[n]
             ok == Strip(r.beh) # <<>> /\ r.time.num
             name == norm_name(r.beh)
             st == UpperStr(r.status)
             kind == IF Contains(S_START, st) THEN "START"
                     ELSE IF Contains(S_STOP, st) THEN "STOP"
                     ELSE "POINT"
         IN  Append(ev,
                [ok |-> ok, name |-> name, kind |-> kind,
                 frame |-> Max(0, Min(PyRound(r.time.q * fps, 4), frames - 1)),
                 opener |-> IF ok /\ kind = "STOP" THEN OpenerIn(ev, name) ELSE 0])

Parsed(rs) == ParsedUpTo(rs, Len(rs))

\* event i is a point on frame ff or closes an interval that contains ff
Covers(ev, i, ff) ==
    /\ ev[i].ok
    /\ \/ ev[i].kind = "POINT" /\ ev[i].frame = ff
       \/ /\ ev[i].kind = "STOP"
          /\ ev[i].opener # 0
          /\ Min(ev[ev[i].opener].frame, ev[i].frame) <= ff
          /\ ff <= Max(ev[ev[i].opener].frame, ev[i].frame)

Covering(ev, ff) == {i \in 1..Len(ev) : Covers(ev, i, ff)}

Last(S) == CHOOSE i \in S : \A j \in S : j <= i

EventsOf(ev, kind, name) ==
    {i \in 1..Len(ev) : ev[i].ok /\ ev[i].kind = kind /\ ev[i].name = name}

-----------------------------------------------------------------------------
(* Claims checked under Spec.                                              *)

\* C1: in single-label and in multilabel mode, whatever records have been
\* consumed, the sequence a builder holds and returns has exactly frameCount
\* elements; with frameCount 0 it is the empty sequence.
C1_LengthIsFrameCount ==
    pc # "call" => /\ Len(out) = frames
                   /\ (frames = 0 => out = <<>>)

C1_Witness ==
    /\ pc = "done" /\ mode = "multilabel" /\ frames = 3 /\ Len(recs) = 2
    /\ Parsed(recs)[2].opener = 1

\* C5: in the single-label builder every frame carries the class ID of the
\* last consumed record that covers it (a point on it, or a STOP whose
\* interval [min(open, close), max(open, close)] contains it) and 0 when no
\* record covers it; Scenario A gives rest on frames 2..6 and 0 on 0, 1, 7.
C5_LastProcessedWins ==
    (Running /\ mode = "single") =>
        LET ev == Parsed(recs)
        IN  /\ \A ff \in 0..(frames - 1) :
                 LET cov == Covering(ev, ff)
                 IN  out[ff + 1] = IF cov = {} THEN 0 ELSE beh_to_id[ev[Last(cov)].name]
            /\ (recs = ScenarioA /\ fps = 2 /\ frames = 8) =>
                 out = [i \in 1..8 |-> IF (i - 1) \in 2..6 THEN beh_to_id[S_rest] ELSE 0]

\* the later processed, chronologically earlier interval has overwritten
\* the frames it shares with the interval processed before it
C5_Witness ==
    /\ mode = "single" /\ pc = "done" /\ recs = ScenarioLate
    /\ fps = 2 /\ frames = 8
    /\ out[5] = beh_to_id[S_rest] /\ out[7] = beh_to_id[S_dig] /\ out[1] = 0

\* the (frame, class) pairs whose bit is set
Bits(o) == {x \in (0..(Len(o) - 1)) \X (0..(K - 1)) : o[x[1] + 1][x[2]] = 1}

\* C6: in the multilabel builder a step never clears a bit, and a step that
\* closes an interval changes only bits of the closing behavior on frames of
\* that interval; so the bits set are exactly the (frame, class) pairs with a
\* point or closed interval of that class covering the frame.  Scenario B
\* gives both bits on frames 4-5, groom alone on 2-3, vocalize alone on 6-7.
C6_BitsOnlyAccumulate ==
    /\ [](Running /\ mode = "multilabel" =>
            LET ev == Parsed(recs)
            IN  /\ Bits(out) = {x \in (0..(frames - 1)) \X (0..(K - 1)) :
                                  \E i \in Covering(ev, x[1]) : beh_to_id[ev[i].name] = x[2]}
                /\ (recs = ScenarioB /\ fps = 2 /\ frames = 8) =>
                      Bits(out) = ((2..5) \X {beh_to_id[S_groom]})
                                  \cup ((4..7) \X {beh_to_id[S_vocalize]}))
    /\ [][(pc = "loop" /\ mode = "multilabel") =>
            /\ Bits(out) \subseteq Bits(out')
            /\ \A x \in Bits(out') \ Bits(out) :
                  LET ev == Parsed(recs')
                      i == Len(recs')
                  IN  /\ ev[i].ok /\ ev[i].kind # "START"
                      /\ x[2] = beh_to_id[ev[i].name]
                      /\ Covers(ev, i, x[1])]_vars

C6_Witness ==
    /\ mode = "multilabel" /\ pc = "done" /\ recs = ScenarioB
    /\ fps = 2 /\ frames = 8
    /\ out[5][beh_to_id[S_groom]] = 1 /\ out[5][beh_to_id[S_vocalize]] = 1

\* C7: a behavior with START events but no STOP and no POINT event among
\* the records consumed labels no frame: no frame carries its class ID
\* (single-label) and no frame has its bit set (multilabel).
C7_UnmatchedStartWritesNothing ==
    Running =>
        LET ev == Parsed(recs)
        IN  \A b \in Range(beh) :
                (/\ EventsOf(ev, "START", b) # {}
                 /\ EventsOf(ev, "STOP", b) = {}
                 /\ EventsOf(ev, "POINT", b) = {})
                => \A i \in 1..Len(out) :
                       IF mode = "single" THEN out[i] # beh_to_id[b]
                       ELSE out[i][beh_to_id[b]] = 0

\* dig is started between the START and the STOP of rest and never stopped
C7_Witness ==
    /\ pc = "done" /\ recs = ScenarioC /\ frames = 3
    /\ LET ev == Parsed(recs)
       IN  /\ ev[1].ok /\ ev[1].kind = "START" /\ ev[1].name = S_rest
           /\ ev[2].ok /\ ev[2].kind = "START" /\ ev[2].name = S_dig
           /\ ev[3].opener = 1 /\ ev[3].frame # ev[1].frame

\* C10: with frameCount >= 1 the frame a timestamp is mapped to lies in
\* [0, frameCount-1] for every consumed event (negative, zero and
\* beyond-duration timestamps included), and so do every stored opening
\* frame and every frame a closed interval or a point writes.
C10_FrameIndexInRange ==
    (Running /\ frames >= 1) =>
        LET ok == 0..(frames - 1)
            ev == Parsed(recs)
            fr(i) == tf(recs[i].time.q, fps, frames)
        IN  /\ \A i \in 1..Len(recs) : ev[i].ok => fr(i) \in ok
            /\ \A b \in DOMAIN act : act[b] \in ok
            /\ \A i \in 1..Len(recs) :
                  ev[i].opener # 0 =>
                      /\ Min(fr(ev[i].opener), fr(i)) \in ok
                      /\ Max(fr(ev[i].opener), fr(i)) \in ok

\* an interval opened at a negative time and closed beyond the duration
C10_Witness ==
    /\ pc = "done" /\ frames = 3 /\ Len(recs) = 2
    /\ recs[1].time.q < 0 /\ recs[2].time.q > MaxDurQ
    /\ Parsed(recs)[2].opener = 1
    /\ \A i \in 1..3 : IF mode = "single" THEN out[i] = beh_to_id[S_rest]
                                           ELSE out[i][beh_to_id[S_rest]] = 1

\* C11: in both builders a STOP event of a behavior that has no open
\* interval (no earlier START of it, or its latest START already closed by a
\* STOP) leaves the label sequence and the open-interval map as they were;
\* START b, STOP b, STOP b gives the sequence of START b, STOP b.
C11_UnopenedStopIsDropped ==
    /\ [][(pc = "loop" /\ recs' # recs) =>
            LET ev == Parsed(recs')
                i == Len(recs')
            IN  (ev[i].ok /\ ev[i].kind = "STOP" /\ ev[i].opener = 0)
                    => (out' = out /\ act' = act)]_vars
    /\ [](Running /\ recs = ScenarioDoubleStop =>
            out = IF mode = "single"
                  THEN labels_from_records_single(SubSeq(recs, 1, 2), fps, frames, beh_to_id)
                  ELSE labels_from_records_multilabel(SubSeq(recs, 1, 2), fps, frames,
                                                      beh_to_id, K))

\* the second STOP of rest, at frame 0, outside the closed interval
C11_Witness ==
    /\ pc = "done" /\ mode = "single" /\ recs = ScenarioDoubleStop
    /\ fps = 2 /\ frames = 3
    /\ LET ev == Parsed(recs)
       IN  ev[3].ok /\ ev[3].kind = "STOP" /\ ev[3].opener = 0 /\ ev[3].frame = 0
    /\ out = <<0, beh_to_id[S_rest], beh_to_id[S_rest]>>
    /\ act = <<>>

\* C16: after any prefix of the stream, in both builders, a behavior has an
\* open interval exactly when its latest START or STOP event (of parseable
\* time and non-blank behavior) is a START, and the stored opening frame is
\* the frame of that START, so a STOP closes from the latest START; a POINT
\* event and a skipped record leave the open-interval map as it was.
C16_OpenIntervalMap ==
    /\ [](Running =>
            LET ev == Parsed(recs)
                names == Range(beh) \cup DOMAIN act \cup {ev[i].name : i \in 1..Len(ev)}
            IN  /\ \A b \in names :
                      LET j == OpenerIn(ev, b)
                      IN  /\ b \in DOMAIN act <=> j # 0
                          /\ j # 0 => act[b] = ev[j].frame
                /\ (recs = SubSeq(ScenarioRestart, 1, 2) /\ fps = 2 /\ frames = 8)
                      => act = (S_rest :> 4)
                /\ (recs = ScenarioRestart /\ fps = 2 /\ frames = 8)
                      => \A ff \in 0..7 :
                            (ff \in 4..6) <=> IF mode = "single"
                                              THEN out[ff + 1] = beh_to_id[S_rest]
                                              ELSE out[ff + 1][beh_to_id[S_rest]] = 1)
    /\ [][(pc = "loop" /\ recs' # recs) =>
            LET ev == Parsed(recs')
                i == Len(recs')
            IN  (~ev[i].ok \/ ev[i].kind = "POINT") => act' = act]_vars

\* the second START of rest has replaced the first and the STOP has closed it
C16_Witness ==
    /\ pc = "done" /\ mode = "multilabel" /\ recs = ScenarioRestart
    /\ fps = 2 /\ frames = 8
    /\ LET ev == Parsed(recs)
       IN  ev[1].frame = 1 /\ ev[2].frame = 4 /\ ev[3].opener = 2
    /\ out[4][beh_to_id[S_rest]] = 0 /\ out[5][beh_to_id[S_rest]] = 1
    /\ act = <<>>

\* the sequence the single-label builder holds after the consumed records
SingleOut ==
    IF mode = "single" THEN out
    ELSE labels_from_records_single(recs, fps, frames, vocabulary("single", beh))

\* the sequence the multilabel builder holds after the consumed records
MultilabelOut ==
    IF mode = "multilabel" THEN out
    ELSE labels_from_records_multilabel(recs, fps, frames,
                                        vocabulary("multilabel", beh), Len(beh))

\* C17: after every prefix of the stream the single-label and the
\* multilabel builder, each with the vocabulary of its mode, agree: a frame
\* that no closed interval and no point covers is 0 in the one and all-zero
\* in the other; a covered frame holds in the single-label sequence the ID
\* of the behavior that wrote it last, and whenever it holds the ID of an
\* observed behavior b the bit of b is set in the multilabel sequence.
C17_SingleWithinMultilabel ==
    Running =>
        LET ev == Parsed(recs)
            sid == vocabulary("single", beh)
            mid == vocabulary("multilabel", beh)
            so == SingleOut
            mo == MultilabelOut
        IN  /\ Len(so) = frames /\ Len(mo) = frames
            /\ \A ff \in 0..(frames - 1) :
                  LET cov == Covering(ev, ff)
                  IN  /\ cov = {} => /\ so[ff + 1] = 0
                                     /\ \A c \in DOMAIN mo[ff + 1] : mo[ff + 1][c] = 0
                      /\ cov # {} => /\ so[ff + 1] = sid[ev[Last(cov)].name]
                                     /\ so[ff + 1] # 0
                                     /\ mo[ff + 1][mid[ev[Last(cov)].name]] = 1
                      /\ \A b \in Range(beh) :
                            so[ff + 1] = sid[b] => mo[ff + 1][mid[b]] = 1

\* frame 4 lies in the interval of dig and in the later processed one of
\* rest: the multilabel vector holds both, the single-label value is rest
C17_Witness ==
    /\ pc = "done" /\ mode = "single" /\ recs = ScenarioLate
    /\ fps = 2 /\ frames = 8
    /\ out[5] = beh_to_id[S_rest]
    /\ LET mid == vocabulary("multilabel", beh)
       IN  MultilabelOut[5][mid[S_rest]] = 1 /\ MultilabelOut[5][mid[S_dig]] = 1
    /\ out[1] = 0 /\ \A c \in DOMAIN MultilabelOut[1] : MultilabelOut[1][c] = 0

\* C2: every value of a single-label sequence is a key of class_names of
\* the same descriptor, the default 0 of unwritten frames included; every
\* frame of a multilabel sequence is a vector of K entries, each 0 or 1,
\* where K is the number of class_names entries.
C2_ValuesAreClassIds ==
    Running =>
        LET names == class_names(beh_to_id)
        IN  IF mode = "single"
            THEN \A i \in 1..Len(out) : out[i] \in DOMAIN names
            ELSE \A i \in 1..Len(out) :
                    /\ DOMAIN out[i] = 0..(Cardinality(DOMAIN names) - 1)
                    /\ \A c \in DOMAIN out[i] : out[i][c] \in {0, 1}

-----------------------------------------------------------------------------
(* SpecVocab: the vocabulary of a run, convert_labels lines 213-229.       *)
(* A file is reduced to what _collect_all_behaviors reads of it: whether   *)
(* _find_col resolves a Behavior column, and the cells of that column.     *)

\* most input files of one run
MaxFiles == 2

File(has, cells) == [behavior_col |-> has, cells |-> cells]

BehaviorCells == {S_rest, S_Dig_sp, S_dig, S_Dig__Up, S_Other, S_blank}

FileChoices ==
    { File(TRUE, c) : c \in UNION {[1..n -> BehaviorCells] : n \in 0..2} }
    \cup { File(FALSE, <<S_rest>>) }

FileLists == UNION {[1..n -> FileChoices] : n \in 0..MaxFiles}

\* the loop of _collect_all_behaviors that appends each new name to a list
RECURSIVE collect_in_encounter_order(_)
collect_in_encounter_order(ps) ==
    IF ps = <<>> THEN <<>>
    ELSE LET before == collect_in_encounter_order(SubSeq(ps, 1, Len(ps) - 1))
             f == ps[Len(ps)]
             RECURSIVE add(_, _)
             add(acc, i) ==
                 IF i > Len(f.cells) THEN acc
                 ELSE LET b == Strip(f.cells[i])
                      IN  IF b # <<>> /\ norm_name(b) \notin Range(acc)
                          THEN add(Append(acc, norm_name(b)), i + 1)
                          ELSE add(acc, i + 1)
         IN  IF f.behavior_col THEN add(before, 1) ELSE before

\* the set beh after the loop over paths, lines 117-124
RECURSIVE collected(_)
collected(ps) ==
    IF ps = <<>> THEN {}
    ELSE LET f == ps[Len(ps)]
             before == collected(SubSeq(ps, 1, Len(ps) - 1))
         IN  IF f.behavior_col THEN before \cup observed_names(Range(f.cells))
             ELSE before

\* _collect_all_behaviors
collect_all_behaviors(ps) == Sorted(collected(ps))

InitVocab ==
    /\ mode \in {"single", "multilabel"}
    /\ paths \in FileLists
    /\ beh = <<>>
    /\ beh_to_id = <<>>
    /\ K = 0
    /\ fps = 1
    /\ frames = 0
    /\ recs = <<>>
    /\ out = <<>>
    /\ act = <<>>
    /\ videos = <<>>
    /\ splits = <<>>
    /\ pc = "files"
    /\ UnusedFolder /\ UnusedRun

\* lines 213-220: no files, or no behaviors, ends the run without output
collect ==
    /\ pc = "files"
    /\ IF paths = <<>> THEN beh' = <<>> /\ pc' = "aborted"
       ELSE /\ beh' = collect_all_behaviors(paths)
            /\ pc' = IF beh' = <<>> THEN "aborted" ELSE "vocabulary"
    /\ UNCHANGED <<mode, beh_to_id, K, fps, frames, recs, out, act, paths, videos, splits,
                 folder_vars, run_vars>>

\* lines 222-229
build_vocabulary ==
    /\ pc = "vocabulary"
    /\ beh_to_id' = vocabulary(mode, beh)
    /\ K' = IF mode = "multilabel" THEN Len(beh) ELSE K
    /\ pc' = "built"
    /\ UNCHANGED <<mode, beh, fps, frames, recs, out, act, paths, videos, splits,
                 folder_vars, run_vars>>

NextVocab == collect \/ build_vocabulary

SpecVocab == InitVocab /\ [][NextVocab]_vars

\* the normalized names found in the behavior column of any input file
Observed ==
    UNION {observed_names(Range(paths[i].cells)) :
              i \in {j \in 1..Len(paths) : paths[j].behavior_col}}

\* C8: for a non-empty set of observed normalized names, whatever it holds,
\* the single-label class_names has exactly the IDs 0..N, maps 0 to "other"
\* and maps the observed name with k-1 observed names below it to ID k.
C8_SingleLabelVocabulary ==
    (pc = "built" /\ mode = "single") =>
        LET cn == class_names(beh_to_id)
        IN  /\ DOMAIN cn = 0..Cardinality(Observed)
            /\ cn[0] = S_other
            /\ \A b \in Observed :
                  cn[1 + Cardinality({m \in Observed : StrLess(m, b)})] = b

Reordered(ps, p) == [i \in 1..Len(ps) |-> ps[p[i]]]

Orderings(n) == {p \in [1..n -> 1..n] : \A i, j \in 1..n : p[i] = p[j] => i = j}

\* one file that holds the behavior cells of all files of ps, last file first
RECURSIVE Merged(_)
Merged(ps) ==
    IF ps = <<>> THEN <<>>
    ELSE (IF ps[Len(ps)].behavior_col THEN ps[Len(ps)].cells ELSE <<>>)
         \o Merged(SubSeq(ps, 1, Len(ps) - 1))

\* C9: in both modes the name-to-ID mapping of a run is the one obtained
\* from the same files in any other order, and from the same behavior cells
\* met first in another file: it depends only on the set of names found.
C9_VocabularyIgnoresFileOrder ==
    pc = "built" =>
        /\ \A p \in Orderings(Len(paths)) :
              vocabulary(mode, collect_all_behaviors(Reordered(paths, p))) = beh_to_id
        /\ vocabulary(mode, collect_all_behaviors(<<File(TRUE, Merged(paths))>>)) = beh_to_id
        /\ DOMAIN beh_to_id \ {S_other} = Observed \ {S_other}

\* two files whose names are met in an order that sorting has to change
C9_Witness ==
    /\ pc = "built" /\ Len(paths) = 2
    /\ collect_in_encounter_order(paths) # collect_all_behaviors(paths)
    /\ collect_in_encounter_order(Reordered(paths, <<2, 1>>))
           # collect_in_encounter_order(paths)
    /\ Cardinality(Observed) >= 3

-----------------------------------------------------------------------------
(* SpecSplits: SplitAssigner, _make_splits.  A video identifier is a       *)
(* number; _make_splits only tests identifiers for equality.  The products *)
(* n*0.7 and n*0.15 are rounded as the exact 70n/100 and 15n/100: for      *)
(* every n up to the bound the binary floating point product lies on the   *)
(* same side of, or exactly on, the same half-integer.                     *)

\* most distinct videos in a long input list
MaxDistinct == 10
\* longest input list drawn freely over three identifiers
MaxShort == 3

\* TRAIN_FRAC and VAL_FRAC, in hundredths
TRAIN_FRAC == 70
VAL_FRAC == 15

\* a list kept as it is, duplicates included
uniq_keep_all(vs) == vs

\* lines 128-133: the identifiers of vs in first-occurrence order
uniq_of(vs) ==
    LET RECURSIVE loop(_, _)
        loop(uniq, i) ==
            IF i > Len(vs) THEN uniq
            ELSE IF vs[i] \notin Range(uniq) THEN loop(Append(uniq, vs[i]), i + 1)
            ELSE loop(uniq, i + 1)
    IN  loop(<<>>, 1)

\* the sizes with int(n*frac) in place of int(round(n*frac))
split_counts_truncating(n) ==
    LET n_train == Max(1, PyFloor(n * TRAIN_FRAC, 100))
        n_val == PyFloor(n * VAL_FRAC, 100)
    IN  [train |-> n_train, val |-> n_val, test |-> Max(0, n - n_train - n_val)]

\* lines 136-139: n_train, n_val, n_test
split_counts(n) ==
    LET n_train == Max(1, PyRound(n * TRAIN_FRAC, 100))
        n_val0 == PyRound(n * VAL_FRAC, 100)
        n_val == IF n_train + n_val0 > n THEN Max(0, n - n_train) ELSE n_val0
        n_test == Max(0, n - n_train - n_val)
    IN  [train |-> n_train, val |-> n_val, test |-> n_test]

\* the Python slice s[a:b] for 0 <= a <= b
Slice(s, a, b) == SubSeq(s, a + 1, Min(b, Len(s)))

\* _make_splits
make_splits(vs) ==
    LET uniq == uniq_of(vs)
        n == Len(uniq)
        c == split_counts(n)
    IN  IF n = 0
        THEN [train |-> <<>>, val |-> <<>>, test |-> <<>>, inference |-> <<>>]
        ELSE [train |-> Slice(uniq, 0, c.train),
              val |-> Slice(uniq, c.train, c.train + c.val),
              test |-> Slice(uniq, c.train + c.val, c.train + c.val + c.test),
              inference |-> uniq]

\* 1..n started at r+1
Rotated(n, r) == [i \in 1..n |-> ((i - 1 + r) % n) + 1]

\* lists of up to MaxDistinct videos in three orders, alone or with one
\* video repeated before or after the others
LongLists ==
    UNION { UNION { {Rotated(n, r)}
                    \cup {<<d>> \o Rotated(n, r) : d \in 1..n}
                    \cup {Rotated(n, r) \o <<d>> : d \in 1..n}
                  : r \in {0, 1, n - 1} \cap (0..(n - 1)) }
          : n \in 0..MaxDistinct }

ShortLists == UNION {[1..n -> 1..3] : n \in 0..MaxShort}

InitSplits ==
    /\ videos \in LongLists \cup ShortLists
    /\ splits = <<>>
    /\ pc = "make_splits"
    /\ mode = "single"
    /\ beh = <<>>
    /\ beh_to_id = <<>>
    /\ K = 0
    /\ fps = 1
    /\ frames = 0
    /\ recs = <<>>
    /\ out = <<>>
    /\ act = <<>>
    /\ paths = <<>>
    /\ UnusedFolder /\ UnusedRun

\* line 253: splits=_make_splits(vids)
call_make_splits ==
    /\ pc = "make_splits"
    /\ splits' = make_splits(videos)
    /\ pc' = "splits_made"
    /\ UNCHANGED <<mode, beh, beh_to_id, K, fps, frames, recs, out, act, paths, videos,
                 folder_vars, run_vars>>

NextSplits == call_make_splits

SpecSplits == InitSplits /\ [][NextSplits]_vars

\* the position of the first occurrence of v in the input list
FirstIndex(v) == CHOOSE i \in 1..Len(videos) :
                    videos[i] = v /\ \A j \in 1..(i - 1) : videos[j] # v

NoRepeats(s) == \A i, j \in 1..Len(s) : s[i] = s[j] => i = j

\* C3: for every input list, train, val and test are pairwise disjoint,
\* together they hold every video of the list exactly once, and inference
\* is the list without repeats in the order of first occurrence.
C3_SplitsPartitionVideos ==
    pc = "splits_made" =>
        LET all == splits.train \o splits.val \o splits.test
            inf == splits.inference
        IN  /\ Range(splits.train) \cap Range(splits.val) = {}
            /\ Range(splits.train) \cap Range(splits.test) = {}
            /\ Range(splits.val) \cap Range(splits.test) = {}
            /\ Range(all) = Range(videos)
            /\ NoRepeats(all)
            /\ Range(inf) = Range(videos)
            /\ NoRepeats(inf)
            /\ \A i, j \in 1..Len(inf) :
                  i < j => FirstIndex(inf[i]) < FirstIndex(inf[j])

\* a list with a repeated video, not in ascending order, filling all splits
C3_Witness ==
    /\ pc = "splits_made"
    /\ Len(videos) > Cardinality(Range(videos))
    /\ videos[1] # 1 /\ videos[1] = videos[Len(videos)]
    /\ splits.val # <<>> /\ splits.test # <<>>

\* the videos of the input list in the order of their first occurrence
FirstOccurrences ==
    LET idx == {i \in 1..Len(videos) : \A j \in 1..(i - 1) : videos[j] # videos[i]}
    IN  [k \in 1..Cardinality(idx) |->
            videos[CHOOSE i \in idx : Cardinality({j \in idx : j <= i}) = k]]

\* the integer nearest to num/den, the even one of two equally near
Nearest(num, den) ==
    LET dist(k) == IF den * k >= num THEN den * k - num ELSE num - den * k
    IN  CHOOSE k \in 0..(num + 1) :
            \A j \in 0..(num + 1) :
                dist(k) < dist(j) \/ j = k \/ (dist(k) = dist(j) /\ k % 2 = 0)

\* C4: with n >= 1 distinct videos, train is the first max(1, round(0.70*n))
\* videos of the first-occurrence list, val the next round(0.15*n) (n minus
\* the train size if the sum would exceed n) and test the rest; n = 10
\* gives train 7, val 2, test 1, inference 10.
C4_ContiguousSlices ==
    (pc = "splits_made" /\ videos # <<>>) =>
        LET d == FirstOccurrences
            n == Len(d)
            nt == Max(1, Nearest(70 * n, 100))
            nv0 == Nearest(15 * n, 100)
            nv == IF nt + nv0 > n THEN n - nt ELSE nv0
        IN  /\ splits.train = SubSeq(d, 1, nt)
            /\ splits.val = SubSeq(d, nt + 1, nt + nv)
            /\ splits.test = SubSeq(d, nt + nv + 1, n)
            /\ n = 10 => /\ Len(splits.train) = 7 /\ Len(splits.val) = 2
                         /\ Len(splits.test) = 1 /\ Len(splits.inference) = 10

C4_Witness ==
    /\ pc = "splits_made" /\ Cardinality(Range(videos)) = 10
    /\ Len(videos) = 11 /\ videos[1] = 2
    /\ splits.train = <<2, 3, 4, 5, 6, 7, 8>> /\ splits.test = <<1>>

-----------------------------------------------------------------------------
(* SpecFolder: folder ingestion, process_folder_structure of               *)
(* prepare_folder_dataset.py.  The root is the list of its entries in the  *)
(* order iterdir yields them; a directory holds files, each with a suffix  *)
(* and the frame count the video reader reports for it.                    *)

\* most files in a directory of a freely chosen root
MaxClips == 2
\* most valid clips in a root of the Scenario D layout
MaxValid == 10
\* longest list of which random.shuffle is given every permutation
MaxPermuted == 3

S_walk  == <<119, 97, 108, 107>>                        \* "walk"
S_feed  == <<102, 101, 101, 100>>                       \* "feed"
S_cache == <<46, 99, 97, 99, 104, 101>>                 \* ".cache"
S_notes == <<110, 111, 116, 101, 115, 46, 116, 120, 116>>  \* "notes.txt"
S_mp4   == <<46, 109, 112, 52>>                         \* ".mp4"
S_MP4   == <<46, 77, 80, 52>>                           \* ".MP4"
S_avi   == <<46, 97, 118, 105>>                         \* ".avi"
S_txt   == <<46, 116, 120, 116>>                        \* ".txt"

VIDEO_EXTS ==
    { <<46, 109, 116, 115>>,                   \* ".mts"
      <<46, 109, 50, 116, 115>>,               \* ".m2ts"
      <<46, 109, 112, 52>>,                    \* ".mp4"
      <<46, 109, 111, 118>>,                   \* ".mov"
      <<46, 109, 52, 118>>,                    \* ".m4v"
      <<46, 97, 118, 105>>,                    \* ".avi"
      <<46, 109, 107, 118>>,                   \* ".mkv"
      <<46, 119, 109, 118>>,                   \* ".wmv"
      <<46, 109, 112, 103>>,                   \* ".mpg"
      <<46, 109, 112, 101, 103>>,              \* ".mpeg"
      <<46, 109, 112, 50>>,                    \* ".mp2"
      <<46, 109, 112, 118>>,                   \* ".mpv"
      <<46, 51, 103, 112>>,                    \* ".3gp"
      <<46, 51, 103, 50>>,                     \* ".3g2"
      <<46, 119, 101, 98, 109>> }              \* ".webm"

\* a file of a directory: its name (stem and suffix) and CAP_PROP_FRAME_COUNT
Clip(stem, suffix, count) == [name |-> <<stem, suffix>>, count |-> count]

\* an entry of the root directory
Dir(name, files) == [name |-> name, is_dir |-> TRUE, files |-> files]
PlainFile(name) == [name |-> name, is_dir |-> FALSE, files |-> <<>>]

\* get_frame_count: the reported count when positive, else 0
get_frame_count(c) == IF c.count > 0 THEN c.count ELSE 0

\* f"{class_name}/{video_file.name}"
rel_path(class_name, c) == <<class_name, c.name>>

\* d.is_dir() and not d.name.startswith(".")
is_class_dir(d) == d.is_dir /\ ~(Len(d.name) >= 1 /\ d.name[1] = 46)

\* lines 28 and 33: the names of the class directories, sorted
sorted_classes(entries) ==
    Sorted({entries[i].name : i \in {j \in 1..Len(entries) : is_class_dir(entries[j])}})

\* a numbering of the classes from 0
class_ids_from_0(cs) == [name \in Range(cs) |-> (CHOOSE i \in 1..Len(cs) : cs[i] = name) - 1]

\* line 37: {name: i + 1 for i, name in enumerate(classes)}
class_ids(cs) == [name \in Range(cs) |-> CHOOSE i \in 1..Len(cs) : cs[i] = name]

\* the directory entry of a class
class_dir(entries, name) == entries[CHOOSE i \in 1..Len(entries) : entries[i].name = name]

\* a scan that keeps the clips whose frame count is 0
skip_no_clip(n_frames) == FALSE

\* line 57: if n_frames == 0: ... continue
skip_clip(n_frames) == n_frames = 0

\* lines 47-63: the files of one class directory from file i on;
\* st is [labels, all_videos]
RECURSIVE scan_files(_, _, _, _, _)
scan_files(st, class_name, cid, files, i) ==
    IF i > Len(files) THEN st
    ELSE LET c == files[i]
             n_frames == get_frame_count(c)
         IN  IF LowerStr(c.name[2]) \notin VIDEO_EXTS \/ skip_clip(n_frames)
             THEN scan_files(st, class_name, cid, files, i + 1)
             ELSE scan_files(
                    [labels |-> Put(st.labels, rel_path(class_name, c),
                                    [k \in 1..n_frames |-> cid]),
                     all_videos |-> Append(st.all_videos, rel_path(class_name, c))],
                    class_name, cid, files, i + 1)

\* lines 43-63: the class directories from class k on
RECURSIVE scan_classes(_, _, _, _, _)
scan_classes(st, entries, cs, c2i, k) ==
    IF k > Len(cs) THEN st
    ELSE scan_classes(
            scan_files(st, cs[k], c2i[cs[k]], class_dir(entries, cs[k]).files, 1),
            entries, cs, c2i, k + 1)

\* the defaults of train_frac and val_frac, in hundredths
train_frac == 70
val_frac == 15

\* lines 71-73: n_train and n_val
folder_counts(n) ==
    [train |-> Max(1, PyFloor(n * train_frac, 100)), val |-> PyFloor(n * val_frac, 100)]

\* lines 75-80: the splits of the shuffled list vs; inf is list(set(vs))
folder_splits(vs, inf) ==
    LET c == folder_counts(Len(vs))
    IN  [train |-> Slice(vs, 0, c.train),
         val |-> Slice(vs, c.train, c.train + c.val),
         test |-> Slice(vs, c.train + c.val, Len(vs)),
         inference |-> inf]

Reversed(s) == [i \in 1..Len(s) |-> s[Len(s) + 1 - i]]

\* s started at element r+1
RotatedBy(s, r) == [i \in 1..Len(s) |-> s[((i - 1 + r) % Len(s)) + 1]]

\* random.shuffle: every permutation of a list of up to MaxPermuted clips;
\* of a longer list its rotations and its reversal
Shuffles(s) ==
    IF Len(s) <= MaxPermuted
    THEN {Reordered(s, p) : p \in Orderings(Len(s))}
    ELSE {RotatedBy(s, r) : r \in 0..(Len(s) - 1)} \cup {Reversed(s)}

\* list(set(vs)): the clips of vs once each, in an order of the set's own
SetOrders(vs) ==
    LET u == uniq_of(vs)
    IN  IF u = <<>> THEN {u} ELSE {u, Reversed(u), RotatedBy(u, 1)}

\* lines 83-88: the descriptor
output_data(c2i, lbl, spl) ==
    [is_multilabel |-> FALSE, class_names |-> class_names(c2i),
     labels |-> lbl, splits |-> spl]

\* a file of a directory as (suffix, reported frame count): a video, an
\* unreadable video, a file that is no video, a video with a negative count
ClipKinds == {<<S_mp4, 2>>, <<S_MP4, 0>>, <<S_txt, 3>>, <<S_avi, -1>>}

\* the file lists of up to MaxClips files; the stem of a file is its position
ClipLists ==
    UNION { {[i \in 1..n |-> Clip(i, k[i][1], k[i][2])] : k \in [1..n -> ClipKinds]}
            : n \in 0..MaxClips }

\* two class directories, met in descending order of name, with any files
FreeRoots == {<<Dir(S_walk, a), Dir(S_rest, b)>> : a, b \in ClipLists}

\* the entries a root may hold: three class directories, a hidden directory
\* and a plain file
SomeEntries ==
    << Dir(S_rest, <<Clip(1, S_mp4, 2), Clip(2, S_MP4, 0)>>),
       Dir(S_walk, <<Clip(1, S_MP4, 3)>>),
       Dir(S_feed, <<Clip(1, S_avi, 1), Clip(2, S_txt, 3)>>),
       Dir(S_cache, <<Clip(1, S_mp4, 2)>>),
       PlainFile(S_notes) >>

\* any of those entries, in any order
OrderRoots ==
    UNION { {[i \in 1..n |-> SomeEntries[p[i]]] :
                p \in {q \in [1..n -> 1..Len(SomeEntries)] :
                          \A i, j \in 1..n : q[i] = q[j] => i = j}}
            : n \in 0..Len(SomeEntries) }

\* the files numbered j in 1..n with j % 3 = r, each a readable video
ClipsOf(n, r) ==
    LET RECURSIVE upto(_)
        upto(j) == IF j = 0 THEN <<>>
                   ELSE IF j % 3 = r THEN Append(upto(j - 1), Clip(j, S_mp4, 1 + (j % 2)))
                   ELSE upto(j - 1)
    IN  upto(n)

\* Scenario D: rest, walk and feed with n readable clips between them, and
\* one unreadable clip in walk
ScenarioD(n) ==
    << Dir(S_rest, ClipsOf(n, 1)),
       Dir(S_walk, <<Clip(0, S_mp4, 0)>> \o ClipsOf(n, 2)),
       Dir(S_feed, ClipsOf(n, 0)) >>

Roots ==
    {[exists |-> TRUE, entries |-> e] :
        e \in FreeRoots \cup OrderRoots \cup {ScenarioD(n) : n \in 1..MaxValid}}
    \cup {[exists |-> FALSE, entries |-> <<>>]}

InitFolder ==
    /\ root \in Roots
    /\ classes = <<>>
    /\ class_to_id = <<>>
    /\ all_videos = <<>>
    /\ labels = <<>>
    /\ splits = <<>>
    /\ out_json = <<>>
    /\ pc = "folder"
    /\ mode = "single"
    /\ beh = <<>> /\ beh_to_id = <<>> /\ K = 0
    /\ fps = 1 /\ frames = 0 /\ recs = <<>> /\ out = <<>> /\ act = <<>>
    /\ paths = <<>> /\ videos = <<>>

\* lines 22-37: the class directories and their IDs
identify_behaviors ==
    /\ pc = "folder"
    /\ IF ~root.exists
       THEN classes' = classes /\ class_to_id' = class_to_id /\ pc' = "aborted"
       ELSE /\ classes' = sorted_classes(root.entries)
            /\ IF classes' = <<>>
               THEN class_to_id' = class_to_id /\ pc' = "aborted"
               ELSE class_to_id' = class_ids(classes') /\ pc' = "scan"
    /\ UNCHANGED <<mode, beh, beh_to_id, K, fps, frames, recs, out, act, paths,
                   videos, splits, root, all_videos, run_vars>>

\* lines 39-63: a label sequence for every readable clip
scan_videos ==
    /\ pc = "scan"
    /\ LET st == scan_classes([labels |-> <<>>, all_videos |-> <<>>],
                              root.entries, classes, class_to_id, 1)
       IN  labels' = st.labels /\ all_videos' = st.all_videos
    /\ pc' = "splits"
    /\ UNCHANGED <<mode, beh, beh_to_id, K, fps, frames, recs, out, act, paths,
                   videos, splits, root, classes, class_to_id, out_json>>

\* lines 65-80: no valid clip ends the run; else shuffle and slice
create_splits ==
    /\ pc = "splits"
    /\ IF all_videos = <<>>
       THEN all_videos' = all_videos /\ splits' = splits /\ pc' = "aborted"
       ELSE /\ all_videos' \in Shuffles(all_videos)
            /\ \E inf \in SetOrders(all_videos') : splits' = folder_splits(all_videos', inf)
            /\ pc' = "save"
    /\ UNCHANGED <<mode, beh, beh_to_id, K, fps, frames, recs, out, act, paths,
                   videos, root, classes, class_to_id, run_vars>>

\* lines 82-92: the descriptor is written
save_json ==
    /\ pc = "save"
    /\ out_json' = output_data(class_to_id, labels, splits)
    /\ pc' = "saved"
    /\ UNCHANGED <<mode, beh, beh_to_id, K, fps, frames, recs, out, act, paths,
                   videos, splits, folder_vars, labels>>

NextFolder ==
    \/ identify_behaviors
    \/ scan_videos
    \/ create_splits
    \/ save_json

SpecFolder == InitFolder /\ [][NextFolder]_vars

\* the names of the class directories of the root: directories not hidden
ClassDirNames ==
    {root.entries[i].name : i \in {j \in 1..Len(root.entries) :
        root.entries[j].is_dir /\ root.entries[j].name[1] # 46}}

\* the file that a labels key names
ClipAt(key) ==
    LET d == class_dir(root.entries, key[1])
    IN  d.files[CHOOSE i \in 1..Len(d.files) : d.files[i].name = key[2]]

Scanned == pc \in {"splits", "save", "saved"}

\* C12: folder ingestion gives the class directory names the IDs 1..N in
\* ascending order of name, never 0; every clip in labels has as many
\* elements as the clip has frames, each the ID of the clip's directory;
\* with rest, walk, feed the IDs are feed=1, rest=2, walk=3 and every frame
\* of every clip in walk is 3.
C12_FolderIdsAndUniformLabels ==
    Scanned =>
        /\ DOMAIN class_to_id = ClassDirNames
        /\ \A b \in ClassDirNames :
              class_to_id[b] = 1 + Cardinality({m \in ClassDirNames : StrLess(m, b)})
        /\ {class_to_id[b] : b \in ClassDirNames} = 1..Cardinality(ClassDirNames)
        /\ \A key \in DOMAIN labels :
              /\ Len(labels[key]) = ClipAt(key).count
              /\ \A i \in 1..Len(labels[key]) :
                    labels[key][i] = class_to_id[key[1]] /\ labels[key][i] # 0
        /\ ClassDirNames = {S_rest, S_walk, S_feed} =>
              /\ class_to_id[S_feed] = 1 /\ class_to_id[S_rest] = 2
              /\ class_to_id[S_walk] = 3
              /\ \A key \in DOMAIN labels :
                    key[1] = S_walk => \A i \in 1..Len(labels[key]) : labels[key][i] = 3
        /\ pc = "saved" =>
              /\ out_json.labels = labels
              /\ out_json.class_names = [i \in 1..Cardinality(ClassDirNames) |-> classes[i]]

\* Scenario D with ten readable clips: clip 5 lies in walk and has 2 frames
C12_Witness ==
    /\ pc = "saved" /\ root.entries = ScenarioD(10)
    /\ classes = <<S_feed, S_rest, S_walk>>
    /\ Cardinality(DOMAIN out_json.labels) = 10
    /\ out_json.labels[<<S_walk, <<5, S_mp4>>>>] = <<3, 3>>
    /\ out_json.labels[<<S_feed, <<3, S_mp4>>>>] = <<1, 1>>

\* C13: on its shuffled list of n valid clips folder ingestion applies the
\* rule of the tabular path: train has max(1, round(0.70*n)) clips, val has
\* round(0.15*n) (n minus the train size if the sum would exceed n), test
\* the remainder, inference all n clips; 10 clips give 7, 2, 1 and 10.
C13_FolderSplitSizes ==
    pc \in {"save", "saved"} =>
        LET n == Len(all_videos)
            nt == Max(1, Nearest(70 * n, 100))
            nv0 == Nearest(15 * n, 100)
            nv == IF nt + nv0 > n THEN n - nt ELSE nv0
        IN  /\ Len(splits.train) = nt
            /\ Len(splits.val) = nv
            /\ Len(splits.test) = n - nt - nv
            /\ Len(splits.inference) = n
            /\ Range(splits.inference) = Range(all_videos)
            /\ n = 10 => /\ Len(splits.train) = 7 /\ Len(splits.val) = 2
                         /\ Len(splits.test) = 1 /\ Len(splits.inference) = 10

\* the video files of the class directories, as labels keys
VideoClips ==
    UNION { {<<d.name, d.files[i].name>> :
                i \in {j \in 1..Len(d.files) : LowerStr(d.files[j].name[2]) \in VIDEO_EXTS}}
            : d \in {class_dir(root.entries, b) : b \in ClassDirNames} }

\* those with a positive frame count, and those reported with none
ValidClips == {key \in VideoClips : ClipAt(key).count > 0}
ZeroClips == VideoClips \ ValidClips

\* how often key occurs in the list s
Occurrences(s, key) == Cardinality({i \in 1..Len(s) : s[i] = key})

\* C15: a clip whose frame count is reported as 0 has no labels entry and
\* is in none of train, val, test and inference; it does not end the run:
\* every clip with a positive frame count has a labels entry, is in
\* inference and is in exactly one of train, val and test.
C15_ZeroFrameClipsSkipped ==
    /\ Scanned => DOMAIN labels = ValidClips
    /\ (root.exists /\ ValidClips # {}) => pc # "aborted"
    /\ pc \in {"save", "saved"} =>
          LET all == splits.train \o splits.val \o splits.test
          IN  /\ \A key \in ZeroClips :
                    Occurrences(all, key) = 0 /\ Occurrences(splits.inference, key) = 0
              /\ \A key \in ValidClips :
                    Occurrences(all, key) = 1 /\ Occurrences(splits.inference, key) = 1
    /\ pc = "saved" => out_json.labels = labels /\ out_json.splits = splits

\* walk holds an unreadable clip and a readable one, rest a readable one
C15_Witness ==
    /\ pc = "saved" /\ Len(root.entries) = 2
    /\ root.entries[1] = Dir(S_walk, <<Clip(1, S_MP4, 0), Clip(2, S_mp4, 2)>>)
    /\ Cardinality(ZeroClips) = 1 /\ Cardinality(ValidClips) = 2
    /\ DOMAIN out_json.labels = ValidClips
    /\ out_json.splits.test # <<>>

-----------------------------------------------------------------------------
(* SpecConvert: a whole run of convert_labels over its input files.  A     *)
(* file is what _read_boris_records returns of it, reduced to the columns  *)
(* convert_labels reads: the records (time, behavior, status), the FPS,    *)
(* total-length and media cells, which are the same in every record of a   *)
(* file, whether there is a Behavior column, and the stem of the file name.*)

\* most input files of one whole run
MaxInputs == 3

\* DEFAULT_FPS
DEFAULT_FPS == 30

S_v_mp4     == <<118, 46, 109, 112, 52>>                      \* "v.mp4"
S_dir_v_mp4 == <<100, 105, 114, 47, 118, 46, 109, 112, 52>>   \* "dir/v.mp4"
S_w         == <<119>>                                        \* "w"
S_a         == <<97>>                                         \* "a"
S_b         == <<98>>                                         \* "b"
S_c         == <<99>>                                         \* "c"

BorisFile(stem, media_path, media_name, fps_cell, total_cell, has, rs) ==
    [stem |-> stem, media_path |-> media_path, media_name |-> media_name,
     fps |-> fps_cell, total |-> total_cell,
     behavior_col |-> has, cells |-> [i \in 1..Len(rs) |-> rs[i].beh], recs |-> rs]

\* Path(media).name: what follows the last "/"
PathName(s) ==
    LET cut == {i \in 1..Len(s) : s[i] = 47}
    IN  IF cut = {} THEN s
        ELSE SubSeq(s, (CHOOSE i \in cut : \A j \in cut : j <= i) + 1, Len(s))

\* _video_name: the first non-empty media cell, of the name column if it
\* has one, else of the path column; else the stem of the file
video_name(f) ==
    LET media == IF f.recs = <<>> THEN <<>>
                 ELSE IF Strip(f.media_name) # <<>> THEN Strip(f.media_name)
                 ELSE Strip(f.media_path)
        name == IF media # <<>> THEN PathName(media) ELSE f.stem \o S_mp4
    IN  IF 46 \in Range(name) THEN name ELSE name \o S_mp4

\* lines 108-112: the largest time of a record, from 0.0; an infinity wins
max_time(rs) ==
    LET ts == {safe_float(rs[i].time) : i \in 1..Len(rs)}
        fin == {t.v : t \in {x \in ts : x.ok /\ x.val = "finite" /\ x.v > 0}}
    IN  IF \E t \in ts : t.ok /\ t.val = "inf" THEN [v |-> 0, val |-> "inf"]
        ELSE IF fin = {} THEN [v |-> 0, val |-> "finite"]
        ELSE [v |-> CHOOSE x \in fin : \A y \in fin : y <= x, val |-> "finite"]

\* _fps_and_duration: fps a whole number, total in quarter seconds
fps_and_duration(f) ==
    LET fv == IF f.recs = <<>> THEN None ELSE safe_float(f.fps)
        tv == IF f.recs = <<>> THEN None ELSE safe_float(f.total)
        bad(x) == ~x.ok \/ x.val # "finite" \/ x.v <= 0
    IN  [fps |-> IF bad(fv) THEN DEFAULT_FPS ELSE fv.v,
         total |-> IF bad(tv) THEN max_time(f.recs) ELSE [v |-> tv.v, val |-> "finite"]]

\* the records as the builders read them: without a Behavior column
\* r.get(col_beh, "") is the empty string
records_read(f) ==
    IF f.behavior_col THEN f.recs
    ELSE [i \in 1..Len(f.recs) |-> Rec(f.recs[i].time, S_empty, f.recs[i].status)]

\* lines 243-250 raise on the file: the total is an infinity, or a builder
\* that has frames to fill meets a time that is no finite number
file_raises(md, f, b2i) ==
    LET fd == fps_and_duration(f)
        rs == records_read(f)
    IN  \/ fd.total.val = "inf"
        \/ /\ frame_count(fd.fps, fd.total.v) > 0
           /\ \E i \in 1..Len(rs) :
                 IF md = "multilabel" THEN multilabel_raises(rs[i], b2i)
                 ELSE single_raises(rs[i], b2i)

\* lines 247-250: the label sequence of the file
file_labels(md, f, b2i, k) ==
    LET fd == fps_and_duration(f)
        n == frame_count(fd.fps, fd.total.v)
    IN  IF md = "multilabel"
        THEN labels_from_records_multilabel(records_read(f), fd.fps, n, b2i, k)
        ELSE labels_from_records_single(records_read(f), fd.fps, n, b2i)

\* a store that keeps the sequence a video name already has
store_labels_once(lbl, vname, seq) ==
    IF vname \in DOMAIN lbl THEN lbl ELSE Put(lbl, vname, seq)

\* lines 248 and 250: labels[vname]=...
store_labels(lbl, vname, seq) == Put(lbl, vname, seq)

\* lines 254-259: the descriptor
descriptor(md, b2i, lbl, spl) ==
    [is_multilabel |-> md = "multilabel", class_names |-> class_names(b2i),
     labels |-> lbl, splits |-> spl]

\* the input files a run may be given
InputFiles ==
    { \* Scenario A, 2 fps, 4 s: rest on frames 2..6 of v.mp4
      BorisFile(S_a, S_dir_v_mp4, S_empty, NumCell(2), NumCell(16), TRUE, ScenarioA),
      \* v.mp4 again, 2 s: rest is started and left open
      BorisFile(S_b, S_empty, S_v_mp4, NumCell(2), NumCell(8), TRUE,
                <<Rec(NumCell(2), S_rest, S_START)>>),
      \* v.mp4 again, 2 s: a STOP of rest alone, then a point of dig
      BorisFile(S_c, S_v_mp4, S_empty, NumCell(2), NumCell(8), TRUE,
                <<Rec(NumCell(6), S_rest, S_STOP), Rec(NumCell(0), S_Dig_sp, S_empty)>>),
      \* no media, FPS and length cells: c.mp4, 30 fps, length of the last time
      BorisFile(S_c, S_empty, S_empty, BadCell, BadCell, TRUE,
                <<Rec(NumCell(2), S_Other, S_POINT)>>),
      \* a file without records: w.mp4 with no frames
      BorisFile(S_w, S_w, S_empty, NumCell(2), NumCell(8), TRUE, <<>>),
      \* records with blank behavior cells, media "w"
      BorisFile(S_a, S_w, S_empty, NumCell(1), NumCell(8), TRUE,
                <<Rec(NumCell(2), S_blank, S_START), Rec(BadCell, S_empty, S_STOP)>>),
      \* no Behavior column
      BorisFile(S_b, S_empty, S_empty, NumCell(2), NumCell(8), FALSE,
                <<Rec(NumCell(2), S_rest, S_START), Rec(NumCell(6), S_rest, S_STOP)>>),
      \* a time cell "nan" in a record of rest
      BorisFile(S_a, S_empty, S_empty, NumCell(2), NumCell(8), TRUE,
                <<Rec(NumCell(2), S_rest, S_START), Rec(NanCell, S_rest, S_STOP)>>),
      \* a time cell "inf" and no length cell
      BorisFile(S_b, S_v_mp4, S_empty, NumCell(2), BadCell, TRUE,
                <<Rec(InfCell, S_blank, S_empty)>>) }

InputLists == UNION {[1..n -> InputFiles] : n \in 0..MaxInputs}

InitConvert ==
    /\ mode \in {"single", "multilabel"}
    /\ paths \in InputLists
    /\ beh = <<>>
    /\ beh_to_id = <<>>
    /\ K = 0
    /\ fps = 1
    /\ frames = 0
    /\ recs = <<>>
    /\ out = <<>>
    /\ act = <<>>
    /\ videos = <<>>
    /\ splits = <<>>
    /\ pc = "files"
    /\ UnusedFolder /\ UnusedRun

\* lines 232-251, one input file: its video name, its frame count and its
\* label sequence; an exception of lines 243-250 ends the run
convert_file ==
    /\ pc = "built" /\ Len(videos) < Len(paths)
    /\ LET f == paths[Len(videos) + 1]
       IN  IF file_raises(mode, f, beh_to_id)
           THEN /\ pc' = "raised"
                \* line 243 raises before vids.append, a builder after it
                /\ videos' = IF fps_and_duration(f).total.val = "inf" THEN videos
                              ELSE Append(videos, video_name(f))
                /\ labels' = labels
           ELSE /\ videos' = Append(videos, video_name(f))
                /\ labels' = store_labels(labels, video_name(f),
                                          file_labels(mode, f, beh_to_id, K))
                /\ pc' = pc
    /\ UNCHANGED <<mode, beh, beh_to_id, K, fps, frames, recs, out, act, paths,
                   splits, folder_vars, out_json>>

\* lines 253-261: the splits, and the descriptor written to the output file
write_descriptor ==
    /\ pc = "built" /\ Len(videos) = Len(paths)
    /\ splits' = make_splits(videos)
    /\ out_json' = descriptor(mode, beh_to_id, labels, splits')
    /\ pc' = "saved"
    /\ UNCHANGED <<mode, beh, beh_to_id, K, fps, frames, recs, out, act, paths,
                   videos, folder_vars, labels>>

NextConvert ==
    \/ collect
    \/ build_vocabulary
    \/ convert_file
    \/ write_descriptor

SpecConvert == InitConvert /\ [][NextConvert]_vars

\* C14: when no behavior name is found in any input file the run ends
\* without a descriptor, labels or splits; when one is found in any file
\* the run does not end before it has written a descriptor, and the
\* descriptor has a labels entry for the video of every input file, the
\* files without events included.
C14_AbortOnlyWithoutBehaviors ==
    /\ Observed = {} =>
          /\ out_json = <<>> /\ labels = <<>> /\ splits = <<>>
          /\ pc \in {"files", "aborted"}
    /\ Observed # {} => pc \notin {"aborted", "raised"}
    /\ pc = "saved" =>
          /\ out_json.labels = labels
          /\ \A i \in 1..Len(paths) : video_name(paths[i]) \in DOMAIN out_json.labels

\* the video names of the input files, in file order
VideoNames == [i \in 1..Len(paths) |-> video_name(paths[i])]

\* the first and the last input file of video name v
FirstFileOf(v) == CHOOSE i \in 1..Len(paths) :
                     VideoNames[i] = v /\ \A j \in 1..(i - 1) : VideoNames[j] # v
LastFileOf(v) == CHOOSE i \in 1..Len(paths) :
                    VideoNames[i] = v /\ \A j \in (i + 1)..Len(paths) : VideoNames[j] # v

\* C18: after a tabular conversion the keys of labels, the videos of
\* inference and those of train, val and test together are the same set;
\* a video name that several files resolve to is once in the splits, at
\* the place of its first file, and its sequence is the one built from its
\* last file alone: nothing of another file shows in it.
C18_LabelsAndSplitsAgree ==
    pc = "saved" =>
        LET lbl == out_json.labels
            spl == out_json.splits
            all == spl.train \o spl.val \o spl.test
        IN  /\ DOMAIN lbl = Range(VideoNames)
            /\ Range(spl.inference) = DOMAIN lbl
            /\ Range(all) = DOMAIN lbl
            /\ \A v \in DOMAIN lbl :
                  /\ Occurrences(spl.inference, v) = 1 /\ Occurrences(all, v) = 1
                  /\ lbl[v] = file_labels(mode, paths[LastFileOf(v)], beh_to_id, K)
            /\ \A i, j \in 1..Len(spl.inference) :
                  i < j => FirstFileOf(spl.inference[i]) < FirstFileOf(spl.inference[j])
            /\ \A i, j \in 1..Len(all) :
                  i < j => FirstFileOf(all[i]) < FirstFileOf(all[j])
            \* after a file that leaves rest open, a file of the same video
            \* with only a STOP of rest and a point of dig on frame 0
            /\ \A v \in DOMAIN lbl :
                  LET k == LastFileOf(v)
                  IN  (/\ k > 1 /\ VideoNames[k - 1] = v
                       /\ paths[k - 1].recs = <<Rec(NumCell(2), S_rest, S_START)>>
                       /\ paths[k].recs = <<Rec(NumCell(6), S_rest, S_STOP),
                                            Rec(NumCell(0), S_Dig_sp, S_empty)>>)
                      => lbl[v] = IF mode = "single"
                                  THEN <<beh_to_id[S_dig], 0, 0, 0>>
                                  ELSE [f \in 1..4 |-> [c \in 0..(K - 1) |->
                                          IF f = 1 /\ c = beh_to_id[S_dig] THEN 1 ELSE 0]]

\* v.mp4 comes from the first file and from the third, c.mp4 from the second
C18_Witness ==
    /\ pc = "saved" /\ mode = "single" /\ Len(paths) = 3
    /\ VideoNames = <<S_v_mp4, S_c \o S_mp4, S_v_mp4>>
    /\ paths[1].recs = <<Rec(NumCell(2), S_rest, S_START)>>
    /\ paths[3].recs = ScenarioA
    /\ out_json.labels[S_v_mp4] =
          [i \in 1..8 |-> IF (i - 1) \in 2..6 THEN beh_to_id[S_rest] ELSE 0]
    /\ out_json.splits.inference = <<S_v_mp4, S_c \o S_mp4>>
    /\ out_json.splits.train = <<S_v_mp4>> /\ out_json.splits.test = <<S_c \o S_mp4>>

=============================================================================
